---- MODULE Spec2Model ----
(***************************************************************************)
(* Model of the heat-data importer (src/src/import.py, the current         *)
(* revision, and src/foo.py, the earlier revision).  A run reads a         *)
(* workbook, parses every worksheet name, verifies every header, coerces   *)
(* every data row and inserts it, inside one database transaction.         *)
(*                                                                         *)
(* Python strings are TLA+ strings; Ch(s, i) is the i-th character.        *)
(* The character classes are restricted to ASCII: str.strip and \s see     *)
(* space, tab, newline and carriage return, \d sees 0-9.                   *)
(***************************************************************************)
EXTENDS Integers, Sequences, FiniteSets, TLC

\* ------------------------------------------------------------------------
\* Strings
\* ------------------------------------------------------------------------

Ch(s, i) == SubSeq(s, i, i)

From(s, i) == SubSeq(s, i, Len(s))

IsDigit(c) == c \in {"0", "1", "2", "3", "4", "5", "6", "7", "8", "9"}

IsSpace(c) == c \in {" ", "\t", "\n", "\r"}

DigitVal(c) ==
    CASE c = "0" -> 0 [] c = "1" -> 1 [] c = "2" -> 2 [] c = "3" -> 3
      [] c = "4" -> 4 [] c = "5" -> 5 [] c = "6" -> 6 [] c = "7" -> 7
      [] c = "8" -> 8 [] c = "9" -> 9

DigitChar(n) ==
    CASE n = 0 -> "0" [] n = 1 -> "1" [] n = 2 -> "2" [] n = 3 -> "3"
      [] n = 4 -> "4" [] n = 5 -> "5" [] n = 6 -> "6" [] n = 7 -> "7"
      [] n = 8 -> "8" [] n = 9 -> "9"

AllDigits(s) == \A i \in 1..Len(s) : IsDigit(Ch(s, i))

\* int() of a string of decimal digits
RECURSIVE DigitsToInt(_)
DigitsToInt(s) ==
    IF Len(s) = 0 THEN 0
    ELSE 10 * DigitsToInt(SubSeq(s, 1, Len(s) - 1)) + DigitVal(Ch(s, Len(s)))

\* f"{n:02d}"
RECURSIVE IntToDigits(_)
IntToDigits(n) ==
    IF n < 10 THEN DigitChar(n)
    ELSE IntToDigits(n \div 10) \o DigitChar(n % 10)

Fmt02d(n) == IF n < 10 THEN "0" \o DigitChar(n) ELSE IntToDigits(n)

\* number of leading whitespace characters of s from position i on
RECURSIVE SpanSpace(_, _)
SpanSpace(s, i) ==
    IF i > Len(s) \/ ~IsSpace(Ch(s, i)) THEN 0 ELSE 1 + SpanSpace(s, i + 1)

RECURSIVE LStrip(_)
LStrip(s) ==
    IF Len(s) > 0 /\ IsSpace(Ch(s, 1)) THEN LStrip(From(s, 2)) ELSE s

RECURSIVE RStrip(_)
RStrip(s) ==
    IF Len(s) > 0 /\ IsSpace(Ch(s, Len(s)))
    THEN RStrip(SubSeq(s, 1, Len(s) - 1)) ELSE s

\* str.strip()
Strip(s) == RStrip(LStrip(s))

\* position of the first occurrence of character c in s, 0 when there is none
RECURSIVE FindFrom(_, _, _)
FindFrom(s, c, i) ==
    IF i > Len(s) THEN 0
    ELSE IF Ch(s, i) = c THEN i ELSE FindFrom(s, c, i + 1)

Find(s, c) == FindFrom(s, c, 1)

Contains(s, c) == Find(s, c) # 0

\* s.split(c): the pieces of s between the occurrences of c
RECURSIVE Split(_, _)
Split(s, c) ==
    IF ~Contains(s, c) THEN <<s>>
    ELSE <<SubSeq(s, 1, Find(s, c) - 1)>> \o Split(From(s, Find(s, c) + 1), c)

\* ------------------------------------------------------------------------
\* datetime.strptime
\* ------------------------------------------------------------------------

\* the value every failed parse or conversion yields
ValueError == [err |-> "ValueError"]
TypeError == [err |-> "TypeError"]

Failed(r) == "err" \in DOMAIN r

IsLeap(y) == (y % 4 = 0 /\ y % 100 # 0) \/ y % 400 = 0

DaysInMonth(y, m) ==
    IF m = 2 THEN (IF IsLeap(y) THEN 29 ELSE 28)
    ELSE IF m \in {4, 6, 9, 11} THEN 30 ELSE 31

\* a directive of one or two digits (%m %d %H %M %S) matches a whole run of
\* digits, since the text after it is a literal or the end of the string
OneOrTwoDigits(s) == Len(s) \in {1, 2} /\ AllDigits(s)

\* datetime.strptime(s, "%Y-%m-%d").date()
StrpDate(s) ==
    LET p == Split(s, "-") IN
    IF /\ Len(p) = 3
       /\ Len(p[1]) = 4 /\ AllDigits(p[1])
       /\ OneOrTwoDigits(p[2]) /\ OneOrTwoDigits(p[3])
    THEN LET y == DigitsToInt(p[1])
             m == DigitsToInt(p[2])
             d == DigitsToInt(p[3])
         IN IF y >= 1 /\ m \in 1..12 /\ d >= 1 /\ d <= DaysInMonth(y, m)
            THEN [y |-> y, m |-> m, d |-> d]
            ELSE ValueError
    ELSE ValueError

\* datetime.strptime(s, "%H:%M").time()
StrpTime(s) ==
    LET p == Split(s, ":") IN
    IF Len(p) = 2 /\ OneOrTwoDigits(p[1]) /\ OneOrTwoDigits(p[2])
    THEN LET h == DigitsToInt(p[1])
             mi == DigitsToInt(p[2])
         IN IF h <= 23 /\ mi <= 59 THEN [h |-> h, mi |-> mi] ELSE ValueError
    ELSE ValueError

\* position of the first whitespace character of s, 0 when there is none
RECURSIVE FindSpace(_, _)
FindSpace(s, i) ==
    IF i > Len(s) THEN 0
    ELSE IF IsSpace(Ch(s, i)) THEN i ELSE FindSpace(s, i + 1)

\* datetime.strptime(s, "%Y-%m-%d %H:%M:%S"): the blank of the format
\* matches a run of one or more whitespace characters
StrpDateTime(s) ==
    LET ws == FindSpace(s, 1) IN
    IF ws = 0 THEN ValueError
    ELSE LET d == StrpDate(SubSeq(s, 1, ws - 1))
             rest == From(s, ws + SpanSpace(s, ws))
             p == Split(rest, ":")
         IN IF /\ ~Failed(d)
               /\ Len(p) = 3
               /\ \A n \in 1..3 : OneOrTwoDigits(p[n])
               /\ DigitsToInt(p[1]) <= 23
               /\ DigitsToInt(p[2]) <= 59
               /\ DigitsToInt(p[3]) <= 59
            THEN [y |-> d.y, m |-> d.m, d |-> d.d, h |-> DigitsToInt(p[1]),
                  mi |-> DigitsToInt(p[2]), sec |-> DigitsToInt(p[3])]
            ELSE ValueError

\* ------------------------------------------------------------------------
\* Worksheet names
\* ------------------------------------------------------------------------

\* \d{4}-\d{2}-\d{2} at the start of s
MatchesDate(s) ==
    /\ Len(s) >= 10
    /\ AllDigits(SubSeq(s, 1, 4)) /\ Ch(s, 5) = "-"
    /\ AllDigits(SubSeq(s, 6, 7)) /\ Ch(s, 8) = "-"
    /\ AllDigits(SubSeq(s, 9, 10))

\* (\d{4})-(\d{4}) at position i of s
MatchesBlock(s, i) ==
    /\ Len(s) >= i + 8
    /\ AllDigits(SubSeq(s, i, i + 3)) /\ Ch(s, i + 4) = "-"
    /\ AllDigits(SubSeq(s, i + 5, i + 8))

\* TAB_NAME_REGEX.match(s): the four groups, or no match.  A \s+ in front
\* of a digit takes its whole run of whitespace; the one in front of (.+)
\* takes the longest part of its run that leaves a non-empty rest without
\* a newline.
TAB_NAME_REGEX(s) ==
    LET sp1 == SpanSpace(s, 11)
        b == 11 + sp1
        sp2 == SpanSpace(s, b + 9)
        ks == {k \in 1..sp2 : /\ b + 9 + k <= Len(s)
                              /\ ~Contains(From(s, b + 9 + k), "\n")}
        k2 == CHOOSE k \in ks : \A n \in ks : n <= k
    IN IF MatchesDate(s) /\ sp1 >= 1 /\ MatchesBlock(s, b) /\ ks # {}
       THEN [date |-> SubSeq(s, 1, 10),
             start |-> SubSeq(s, b, b + 3),
             end |-> SubSeq(s, b + 5, b + 8),
             extra |-> From(s, b + 9 + k2)]
       ELSE [nomatch |-> TRUE]

\* the HHMM of a worksheet name: int() of each half, reformatted with a
\* colon and parsed as %H:%M
ParseHHMM4(str) ==
    IF Len(str) # 4 THEN ValueError
    ELSE StrpTime(Fmt02d(DigitsToInt(SubSeq(str, 1, 2))) \o ":"
                  \o Fmt02d(DigitsToInt(SubSeq(str, 3, 4))))

\* parse_tab_name(tab_name): the descriptor, or ValueError
parse_tab_name(tab_name) ==
    LET match == TAB_NAME_REGEX(Strip(tab_name)) IN
    IF "nomatch" \in DOMAIN match THEN ValueError
    ELSE LET tab_date == StrpDate(match.date)
             tab_start_time == ParseHHMM4(match.start)
             tab_end_time == ParseHHMM4(match.end)
         IN IF Failed(tab_date) \/ Failed(tab_start_time)
               \/ Failed(tab_end_time)
            THEN ValueError
            ELSE [tab_date |-> tab_date,
                  tab_start_time |-> tab_start_time,
                  tab_end_time |-> tab_end_time,
                  tab_extra |-> match.extra]

\* ------------------------------------------------------------------------
\* Cells
\* ------------------------------------------------------------------------

\* A cell value is its Python type and its str(): None, a str, an int, a
\* float, a bool, a native datetime or a native date.
None == [t |-> "none", s |-> ""]
StrCell(s) == [t |-> "str", s |-> s]
IntCell(s) == [t |-> "int", s |-> s]
FloatCell(s) == [t |-> "float", s |-> s]
BoolCell(s) == [t |-> "bool", s |-> s]
DateTimeCell(s) == [t |-> "datetime", s |-> s]
DateCell(s) == [t |-> "date", s |-> s]

\* worksheet.cell(row, column).value: a cell beyond the populated ones is
\* None
Cell(row, col) == IF col <= Len(row) THEN row[col] ELSE None

\* the truth value Python gives a cell value
Truthy(c) ==
    CASE c.t = "none" -> FALSE
      [] c.t = "str" -> c.s # ""
      [] c.t = "int" -> c.s \notin {"0", "-0"}
      [] c.t = "float" -> c.s \notin {"0.0", "-0.0"}
      [] c.t = "bool" -> c.s = "True"
      [] OTHER -> TRUE

\* ------------------------------------------------------------------------
\* Header
\* ------------------------------------------------------------------------

Revisions == {"import", "foo"}

EXPECTED_HEADERS(rev) ==
    <<"Date", "Supply Temp/C", "Return Temp/C", "Mode", "Request", "State",
      "Note", "Heating", "Heating_Group", "DateOnly", "TimeBlock",
      IF rev = "import" THEN "DateTimeBlockState" ELSE "TimeBlockState">>

\* the header_row that verify_header builds from row 1
header_row(rev, row1) ==
    [col_idx \in 1..Len(EXPECTED_HEADERS(rev)) |->
        IF Truthy(Cell(row1, col_idx)) THEN Cell(row1, col_idx) ELSE StrCell("")]

\* verify_header as it would be if the loop stopped one column short
verify_header_short(rev, row1) ==
    IF \A i \in 1..(Len(EXPECTED_HEADERS(rev)) - 1) :
          header_row(rev, row1)[i] = StrCell(EXPECTED_HEADERS(rev)[i])
    THEN [ok |-> TRUE]
    ELSE [err |-> "ValueError",
          Expected |-> EXPECTED_HEADERS(rev),
          Found |-> header_row(rev, row1)]

\* verify_header(worksheet): TRUE when row 1 passes, else the ValueError
\* with the two sequences its message lists
verify_header(rev, row1) ==
    IF \A i \in 1..Len(EXPECTED_HEADERS(rev)) :
          header_row(rev, row1)[i] = StrCell(EXPECTED_HEADERS(rev)[i])
    THEN [ok |-> TRUE]
    ELSE [err |-> "ValueError",
          Expected |-> EXPECTED_HEADERS(rev),
          Found |-> header_row(rev, row1)]

\* ------------------------------------------------------------------------
\* Row coercion
\* ------------------------------------------------------------------------

\* SQL NULL (Python None) in a record submitted for insertion
Null == [null |-> TRUE]

Text(s) == [text |-> s]

\* s without its trailing zeros
RECURSIVE StripZeros(_)
StripZeros(s) ==
    IF Len(s) > 0 /\ Ch(s, Len(s)) = "0"
    THEN StripZeros(SubSeq(s, 1, Len(s) - 1)) ELSE s

HasSign(s) == Len(s) > 0 /\ Ch(s, 1) \in {"+", "-"}

Unsigned(s) == IF HasSign(s) THEN From(s, 2) ELSE s

\* the decimal literals float() reads: sign, digits, point, digits, with a
\* digit on at least one side of the point (no exponent, inf or nan here)
ParseFloat(s) ==
    LET p == Split(Unsigned(s), ".") IN
    IF /\ Len(p) \in {1, 2}
       /\ \A i \in 1..Len(p) : AllDigits(p[i])
       /\ \E i \in 1..Len(p) : Len(p[i]) > 0
    THEN [neg |-> HasSign(s) /\ Ch(s, 1) = "-",
          ip |-> DigitsToInt(p[1]),
          fp |-> IF Len(p) = 2 THEN StripZeros(p[2]) ELSE ""]
    ELSE ValueError

\* the literals int() reads: sign and digits
ParseInt(s) ==
    IF Len(Unsigned(s)) > 0 /\ AllDigits(Unsigned(s))
    THEN [int |-> IF HasSign(s) /\ Ch(s, 1) = "-"
                  THEN 0 - DigitsToInt(Unsigned(s))
                  ELSE DigitsToInt(Unsigned(s))]
    ELSE ValueError

\* the text float() and int() read from a cell value that is a number
Literal(c) ==
    CASE c.t = "str" -> Strip(c.s)
      [] c.t = "bool" -> (IF c.s = "True" THEN "1" ELSE "0")
      [] OTHER -> c.s

\* float(v) of a cell value
float(c) ==
    IF c.t \in {"str", "int", "float", "bool"} THEN ParseFloat(Literal(c))
    ELSE TypeError

\* a float truncated towards zero
Truncated(f) == [int |-> IF f.neg THEN 0 - f.ip ELSE f.ip]

\* int(v) of a cell value
int(c) ==
    IF c.t \in {"str", "int", "bool"} THEN ParseInt(Literal(c))
    ELSE IF c.t = "float" THEN Truncated(ParseFloat(c.s))
    ELSE TypeError

\* parse_hhmm(s) inside parse_time_block
parse_hhmm(str) ==
    LET s == Strip(str) IN
    IF ~Contains(s, ":") /\ Len(s) = 4
    THEN StrpTime(SubSeq(s, 1, 2) \o ":" \o SubSeq(s, 3, 4))
    ELSE StrpTime(s)

\* parse_time_block(time_block_value): the two times, or ValueError
parse_time_block(time_block_value) ==
    IF time_block_value = "" \/ ~Contains(time_block_value, "-")
    THEN ValueError
    ELSE LET cut == Find(time_block_value, "-")
             time_block_start ==
                 parse_hhmm(SubSeq(time_block_value, 1, cut - 1))
             time_block_end == parse_hhmm(From(time_block_value, cut + 1))
         IN IF Failed(time_block_start) \/ Failed(time_block_end)
            THEN ValueError
            ELSE [start |-> time_block_start, end |-> time_block_end]

\* the value a native datetime cell holds, read off its str()
DateTimeValue(c) == StrpDateTime(c.s)

\* the text columns: import.py keeps str(v) of a truthy cell, foo.py of a
\* cell that is not None
TextOf(rev, c) ==
    IF rev = "import"
    THEN (IF Truthy(c) THEN Text(c.s) ELSE Text(""))
    ELSE (IF c.t # "none" THEN Text(c.s) ELSE Text(""))

\* datetime.date() of a datetime
DateOf(dt) == [y |-> dt.y, m |-> dt.m, d |-> dt.d]

\* date_value (import.py 302-305)
CoerceDate(c) ==
    IF c.t = "datetime" THEN DateTimeValue(c) ELSE StrpDateTime(c.s)

\* supply and return_temp_c (import.py 308, 311)
CoerceTemp(c) == IF c.t # "none" THEN float(c) ELSE Null

\* heating_group_val (import.py 335-337)
CoerceGroup(c) == IF c.t # "none" THEN int(c) ELSE Null

\* date_only_val (import.py 340-344)
CoerceDateOnly(c) ==
    IF c.t = "datetime" THEN DateOf(DateTimeValue(c))
    ELSE IF c.t # "none" THEN StrpDate(c.s)
    ELSE Null

\* time_block_start, time_block_end (import.py 347-349)
CoerceTimeBlock(c) ==
    IF Truthy(c) THEN parse_time_block(c.s)
    ELSE [start |-> Null, end |-> Null]

\* the first exception among the results of the statements that can raise,
\* in the order they ran
RECURSIVE FirstRaised(_)
FirstRaised(steps) ==
    IF steps = <<>> THEN Null
    ELSE IF Failed(Head(steps)) THEN [err |-> Head(steps).err]
    ELSE FirstRaised(Tail(steps))

\* the fields of the record once every statement of the try block has run
Fields(rev, row, date_value, supply, return_temp_c, heating_group_val, date_only_val, time_block) ==
    [date |-> date_value,
     supply |-> supply,
     return_temp_c |-> return_temp_c,
     mode |-> TextOf(rev, Cell(row, 4)),
     request |-> TextOf(rev, Cell(row, 5)),
     state |-> TextOf(rev, Cell(row, 6)),
     enabled |-> (TextOf(rev, Cell(row, 6)) = Text("Enable")),
     note |-> TextOf(rev, Cell(row, 7)),
     heating |-> TextOf(rev, Cell(row, 8)),
     heating_on |-> (TextOf(rev, Cell(row, 8)) = Text("On")),
     heating_group |-> heating_group_val,
     date_only |-> date_only_val,
     time_block_start |-> time_block.start,
     time_block_end |-> time_block.end,
     timeblockstate |-> TextOf(rev, Cell(row, 12))]

\* the outcome of the try block given what each statement that can raise
\* gave: the first exception, else the fields
Outcome(raised, fields) == IF raised # Null THEN raised ELSE fields

\* the try block as a function of what its fallible statements gave
Transformed(rev, row, date_value, supply, return_temp_c, heating_group_val, date_only_val, time_block) ==
    Outcome(FirstRaised(<<date_value, supply, return_temp_c,
                          heating_group_val, date_only_val, time_block>>),
            Fields(rev, row, date_value, supply, return_temp_c,
                   heating_group_val, date_only_val, time_block))

\* the try block that transforms one row whose Date cell is not None: the
\* fields of the record, or the first exception raised on the way
CoerceRow(rev, row) ==
    Transformed(rev, row,
                CoerceDate(Cell(row, 1)),
                CoerceTemp(Cell(row, 2)),
                CoerceTemp(Cell(row, 3)),
                CoerceGroup(Cell(row, 9)),
                CoerceDateOnly(Cell(row, 10)),
                CoerceTimeBlock(Cell(row, 11)))

\* the parameters of the INSERT: the coerced fields, the descriptor of the
\* worksheet and the --sheet-name; foo.py has no tab_full_str column
InsertParams(rev, fields, tab_full_str, tab, global_sheet_name) ==
    fields
    @@ [tab_date |-> tab.tab_date,
        tab_start_time |-> tab.tab_start_time,
        tab_end_time |-> tab.tab_end_time,
        sheet_name |-> Text(global_sheet_name)]
    @@ (IF rev = "import" THEN [tab_full_str |-> Text(tab_full_str)]
        ELSE <<>>)

\* ------------------------------------------------------------------------
\* Inputs of a run
\* ------------------------------------------------------------------------

\* most worksheets of a workbook
MaxSheets == 2

\* most data rows of a worksheet
MaxRows == 2

\* most runs of the program on the same file and database, one after the
\* other
MaxRuns == 2

\* worksheet titles are unique within a workbook: the i-th worksheet is
\* named after the i-th day of the month
GoodTitle(i) == "2025-03-" \o Fmt02d(i) \o " 2101-2359 Basement"

BadTitles == {"Sheet1", "2025-02-30 2101-2359 Basement",
              "2025-03-31 2101-2460 Basement",
              "2025-03-31 2401-2359 Basement",
              "2025-03-31 211-2359 Basement",
              "2025-03-31 2101-2359Basement"}

\* titles with more than one space, a tab or leading whitespace where the
\* form has a single space or nothing
LooseTitles(i) ==
    {"2025-03-" \o Fmt02d(i) \o "  2101-2359 Basement",
     "2025-03-" \o Fmt02d(i) \o "\t2101-2359 Basement",
     "2025-03-" \o Fmt02d(i) \o " 2101-2359  Basement",
     " 2025-03-" \o Fmt02d(i) \o " 2101-2359 Basement"}

Labels(rev) ==
    [i \in 1..Len(EXPECTED_HEADERS(rev)) |-> StrCell(EXPECTED_HEADERS(rev)[i])]

OtherRevision(rev) == IF rev = "import" THEN "foo" ELSE "import"

\* first rows that differ from the expected one: one label changed, one
\* cell absent, one cell a number, two labels exchanged, the last label
\* missing, the labels of the other revision
BadHeaders(rev) ==
    {[Labels(rev) EXCEPT ![7] = StrCell("Notes")],
     [Labels(rev) EXCEPT ![3] = None],
     [Labels(rev) EXCEPT ![9] = IntCell("0")],
     [Labels(rev) EXCEPT ![4] = StrCell("Request"), ![5] = StrCell("Mode")],
     SubSeq(Labels(rev), 1, 11),
     Labels(OtherRevision(rev))}

\* a first row with the expected labels and a thirteenth column
ExtraColumnHeader(rev) == Labels(rev) \o <<StrCell("Comment")>>

\* a fully populated data row
RowA ==
    <<StrCell("2025-03-31 21:05:00"), FloatCell("45.2"), IntCell("40"),
      StrCell("Auto"), StrCell("Heat"), StrCell("Enable"), StrCell("ok"),
      StrCell("On"), IntCell("2"), DateTimeCell("2025-03-31 00:00:00"),
      StrCell("2100-2359"), StrCell("Active")>>

\* a row without timestamp whose other cells would not coerce
RowSkip ==
    <<None, StrCell("n/a"), DateTimeCell("2025-03-31 00:00:00"),
      StrCell("Auto"), None, StrCell("Enable"), None, StrCell("On"),
      StrCell("2.5"), StrCell("31.03.2025"), StrCell("0861-0900"), None>>

\* a row with a native timestamp, absent cells and falsy cells
RowSparse ==
    <<DateTimeCell("2025-03-31 21:10:00"), None, StrCell(" 39.50 "),
      IntCell("0"), BoolCell("False"), StrCell(""), None, None, None,
      DateCell("2025-03-31"), None, FloatCell("0.0")>>

\* rows whose TimeBlock cell is the number 0, has one token with a colon
\* and one without, has a one-digit minute
RowZeroBlock == [RowA EXCEPT ![11] = IntCell("0")]

RowMixedBlock == [RowA EXCEPT ![11] = StrCell("8:05-0930")]

RowShortMinuteBlock == [RowA EXCEPT ![11] = StrCell("8:5-09:30")]

ValidRows == {RowA, RowSkip}

\* rows that fail coercion: one for each fallible column, as text that does
\* not parse or as a native value of the wrong type
FailingRows ==
    {[RowA EXCEPT ![1] = StrCell("31/03/2025 21:05")],
     [RowA EXCEPT ![2] = StrCell("n/a")],
     [RowA EXCEPT ![3] = DateTimeCell("2025-03-31 00:00:00")],
     [RowA EXCEPT ![9] = StrCell("2.5")],
     [RowA EXCEPT ![10] = StrCell("31.03.2025")],
     [RowA EXCEPT ![11] = StrCell("0861-0900")],
     [RowA EXCEPT ![11] = StrCell("08:00-25:00")],
     [RowA EXCEPT ![11] = StrCell("0800 0900")]}

\* the sequences of at most n valid rows
RECURSIVE ValidSeqs(_)
ValidSeqs(n) ==
    IF n = 0 THEN {<<>>}
    ELSE ValidSeqs(n - 1)
         \cup {Append(q, r) : q \in {v \in ValidSeqs(n - 1) : Len(v) = n - 1},
                              r \in ValidRows}

\* the data rows of a worksheet that is not the last of its workbook: none,
\* a skipped row before an inserted one, three inserted rows
LeadingRows == {<<>>, <<RowSkip, RowA>>, <<RowA, RowA, RowA>>}

\* a worksheet the run gets through: valid title, expected header, rows
\* that coerce or are skipped
GoodSheet(rev, i, q) ==
    [title |-> GoodTitle(i), header |-> Labels(rev), rows |-> q]

\* the last worksheet of a workbook when the run gets through it
GoodSheetsAt(rev, i) ==
    {GoodSheet(rev, i, q) :
        q \in ValidSeqs(MaxRows)
              \cup {<<RowSparse>>, <<RowZeroBlock>>, <<RowMixedBlock>>,
                    <<RowShortMinuteBlock>>}}
    \cup {[title |-> GoodTitle(i), header |-> ExtraColumnHeader(rev),
           rows |-> <<RowA>>]}
    \cup {[title |-> t, header |-> Labels(rev), rows |-> <<RowA>>] :
            t \in LooseTitles(i)}

\* the last worksheet of a workbook when the run aborts on it, unless the
\* database fails first: a title that does not parse, a header that does
\* not match, a row that does not coerce after rows that do
FailingSheetsAt(rev, i) ==
    {[title |-> t, header |-> Labels(rev), rows |-> <<RowA>>] :
        t \in BadTitles}
    \cup {[title |-> GoodTitle(i), header |-> h, rows |-> <<RowA>>] :
            h \in BadHeaders(rev)}
    \cup {GoodSheet(rev, i, Append(q, r)) :
            q \in ValidSeqs(MaxRows - 1), r \in FailingRows}

RECURSIVE LeadingSheets(_, _)
LeadingSheets(rev, n) ==
    IF n = 0 THEN {<<>>}
    ELSE {Append(w, GoodSheet(rev, n, q)) :
            w \in LeadingSheets(rev, n - 1), q \in LeadingRows}

\* the workbooks: one to MaxSheets worksheets.  The run never reads past
\* the first failing worksheet, so a failing worksheet comes last.
Workbooks(rev) ==
    UNION {{Append(w, sh) : w \in LeadingSheets(rev, n - 1),
                            sh \in GoodSheetsAt(rev, n)
                                   \cup FailingSheetsAt(rev, n)} :
           n \in 1..MaxSheets}

\* the command lines: a load, and for import.py the table-only modes and
\* the loads with a missing argument
LoadArgs ==
    [drop_table_only |-> FALSE, create_table_only |-> FALSE,
     input_file |-> TRUE, sheet_name |-> "label"]

ArgSets(rev) ==
    {LoadArgs,
     [LoadArgs EXCEPT !.input_file = FALSE],
     [LoadArgs EXCEPT !.sheet_name = ""]}
    \cup (IF rev = "import"
          THEN {[LoadArgs EXCEPT !.drop_table_only = TRUE],
                [LoadArgs EXCEPT !.create_table_only = TRUE],
                [LoadArgs EXCEPT !.drop_table_only = TRUE,
                                 !.create_table_only = TRUE]}
          ELSE {})

\* a row stored by an earlier run
PriorRow(rev) ==
    InsertParams(rev, CoerceRow(rev, RowA), GoodTitle(1),
                 parse_tab_name(GoodTitle(1)), "earlier")

\* the table before the run: missing, or holding an earlier row
Databases(rev) ==
    {[table |-> FALSE, stored |-> <<>>],
     [table |-> TRUE, stored |-> <<PriorRow(rev)>>]}

\* ------------------------------------------------------------------------
\* State of a run
\* ------------------------------------------------------------------------

VARIABLES
    run_no,         \* which run on this file and database this is
    rev,            \* the revision that runs: "import" (import.py) or "foo"
    args,           \* the parsed command line
    file,           \* the input file: readable or not, and its worksheets
    db,             \* the database: whether the table exists, committed rows
    db0,            \* the database as the run found it
    conn,           \* the connection: "none", "open" or "closed"
    pending,        \* rows inserted in the open transaction
    pc,             \* the statement main() is at
    wb,             \* wb.worksheets once the workbook is loaded
    sheet_no,       \* position of the worksheet the outer loop is at
    tab,            \* tab_date, tab_start_time, tab_end_time, tab_extra
    row_idx,        \* row_idx of the inner loop
    rows_inserted,  \* rows_inserted of the current worksheet
    rec,            \* the coerced fields of the row about to be inserted
    log,            \* every call on the connection and every line printed
    err,            \* the exception that ended the run
    status          \* the exit status once the process has ended, else -1

vars == <<run_no, rev, args, file, db, db0, conn, pending, pc, wb, sheet_no, tab,
          row_idx, rows_inserted, rec, log, err, status>>

\* an entry of the log: a call (connect, create, drop, cursor, insert,
\* commit, rollback, close), a printed line, the exit
Ev(op, arg, sheet, title, row, n) ==
    [op |-> op, arg |-> arg, sheet |-> sheet, title |-> title, row |-> row,
     n |-> n]

Call(op, arg) == Ev(op, arg, 0, "", 0, 0)

Printed(kind, title, row, n) == Ev("print", kind, 0, title, row, n)

Exit(code) == Ev("exit", "", 0, "", 0, code)

\* max_row as it would be if the header row were not counted
max_row_without_header(sheet) == Len(sheet.rows)

\* sheet.max_row: the header row and the data rows
max_row(sheet) == 1 + Len(sheet.rows)

Init ==
    /\ run_no = 1
    /\ rev \in Revisions
    /\ args \in ArgSets(rev)
    /\ db \in Databases(rev)
    /\ db0 = db
    /\ file \in
          IF args = LoadArgs
          THEN {[readable |-> TRUE, sheets |-> w] : w \in Workbooks(rev)}
               \cup {[readable |-> FALSE, sheets |-> <<>>]}
          ELSE {[readable |-> TRUE, sheets |-> <<>>]}
    /\ conn = "none"
    /\ pending = <<>>
    /\ pc = "start"
    /\ wb = <<>>
    /\ sheet_no = 0
    /\ tab = Null
    /\ row_idx = 0
    /\ rows_inserted = 0
    /\ rec = Null
    /\ log = <<>>
    /\ err = Null
    /\ status = -1

\* an exception with the call that raised it
Raised(exception, at) == exception @@ [at |-> at]

GatewayError == [err |-> "GatewayError"]

SourceError == [err |-> "SourceError"]

\* the process ends with this exit status after these log entries
Ends(entries, code) ==
    /\ log' = log \o entries \o <<Exit(code)>>
    /\ status' = code
    /\ pc' = "done"

\* the abort of the worksheet loop: the message, conn.rollback(),
\* conn.close(), sys.exit(1), then the finally clause closes again.  When
\* the rollback itself raises, only the finally clause closes.
Aborts(message, exception, at) ==
    /\ \E rolled_back \in BOOLEAN :
          Ends(<<message, Call("rollback", IF rolled_back THEN "ok"
                                           ELSE "failed")>>
               \o (IF rolled_back THEN <<Call("close", "")>> ELSE <<>>)
               \o <<Call("close", "finally")>>
               \o (IF rolled_back THEN <<>>
                   ELSE <<Printed("traceback", "", 0, 0)>>), 1)
    /\ err' = Raised(exception, at)
    /\ pending' = <<>>
    /\ conn' = "closed"

\* an exception nobody catches inside the try block: the finally clause
\* closes the connection, which discards the open transaction, and the
\* interpreter prints the traceback
Propagates(call, exception, at) ==
    /\ Ends(call \o <<Call("close", "finally"),
                      Printed("traceback", "", 0, 0)>>, 1)
    /\ err' = Raised(exception, at)
    /\ pending' = <<>>
    /\ conn' = "closed"

\* ------------------------------------------------------------------------
\* main()
\* ------------------------------------------------------------------------

\* parser.parse_args(): foo.py requires both options
ParseArgs ==
    /\ pc = "start"
    /\ IF rev = "foo" /\ (~args.input_file \/ args.sheet_name = "")
       THEN Ends(<<Printed("usage", "", 0, 0)>>, 2)
       ELSE /\ pc' = IF rev = "import" THEN "connect" ELSE "load"
            /\ UNCHANGED <<log, status>>
    /\ UNCHANGED <<run_no, rev, args, file, db0, db, conn, pending, wb, sheet_no, tab,
                   row_idx, rows_inserted, rec, err>>

\* connect_to_postgres()
Connect ==
    /\ pc = "connect"
    /\ \E connected \in BOOLEAN :
          IF connected
          THEN /\ conn' = "open"
               /\ log' = log \o <<Call("connect", "ok")>>
                         \o (IF rev = "import"
                             THEN <<Printed("connected", "", 0, 0)>>
                             ELSE <<>>)
               /\ pc' = IF rev = "import" THEN "modes" ELSE "ensure"
               /\ UNCHANGED status
          ELSE /\ Ends(<<Call("connect", "failed"),
                         Printed("connect_failed", "", 0, 0)>>, 1)
               /\ UNCHANGED conn
    /\ UNCHANGED <<run_no, rev, args, file, db0, db, pending, wb, sheet_no, tab, row_idx,
                   rows_inserted, rec, err>>

\* import.py: the two table-only options exclude each other
CheckModes ==
    /\ pc = "modes"
    /\ IF args.drop_table_only /\ args.create_table_only
       THEN /\ Ends(<<Printed("both_modes", "", 0, 0), Call("close", "")>>, 1)
            /\ conn' = "closed"
       ELSE /\ pc' = IF args.drop_table_only THEN "drop" ELSE "ensure"
            /\ UNCHANGED <<log, status, conn>>
    /\ UNCHANGED <<run_no, rev, args, file, db0, db, pending, wb, sheet_no, tab, row_idx,
                   rows_inserted, rec, err>>

\* import.py --drop-table-only: drop_table(conn), close, exit; an exception
\* of drop_table is not caught and the connection is not closed
DropTable ==
    /\ pc = "drop"
    /\ \E dropped \in BOOLEAN :
          IF dropped
          THEN /\ db' = [table |-> FALSE, stored |-> <<>>]
               /\ Ends(<<Call("drop", "ok"), Call("commit", "ddl"),
                         Printed("dropped", "", 0, 0), Call("close", "")>>, 0)
               /\ conn' = "closed"
               /\ UNCHANGED err
          ELSE /\ Ends(<<Call("drop", "failed"),
                         Printed("traceback", "", 0, 0)>>, 1)
               /\ err' = Raised(GatewayError, "drop_table")
               /\ UNCHANGED <<db, conn>>
    /\ UNCHANGED <<run_no, rev, args, file, db0, pending, wb, sheet_no, tab, row_idx,
                   rows_inserted, rec>>

\* ensure_table_exists(conn): CREATE TABLE IF NOT EXISTS and a commit.
\* import.py calls it outside any try, foo.py inside the try whose finally
\* clause closes the connection.
EnsureTable ==
    /\ pc = "ensure"
    /\ \E created \in BOOLEAN :
          IF created
          THEN /\ db' = [db EXCEPT !.table = TRUE]
               /\ log' = log \o <<Call("create", "ok"), Call("commit", "ddl")>>
               /\ pc' = IF rev = "import" THEN "created" ELSE "cursor"
               /\ UNCHANGED <<status, conn, err>>
          ELSE /\ err' = Raised(GatewayError, "ensure_table_exists")
               /\ IF rev = "import"
                  THEN /\ Ends(<<Call("create", "failed"),
                                 Printed("traceback", "", 0, 0)>>, 1)
                       /\ UNCHANGED conn
                  ELSE /\ Ends(<<Call("create", "failed"),
                                 Call("close", "finally"),
                                 Printed("traceback", "", 0, 0)>>, 1)
                       /\ conn' = "closed"
               /\ UNCHANGED db
    /\ UNCHANGED <<run_no, rev, args, file, db0, pending, wb, sheet_no, tab, row_idx,
                   rows_inserted, rec>>

\* import.py: --create-table-only stops here; a load needs --input-file
\* and --sheet-name
ValidateArgs ==
    /\ pc = "created"
    /\ IF args.create_table_only
       THEN /\ Ends(<<Printed("created", "", 0, 0), Call("close", "")>>, 0)
            /\ conn' = "closed"
       ELSE IF ~args.input_file
       THEN /\ Ends(<<Printed("no_input_file", "", 0, 0),
                      Call("close", "")>>, 1)
            /\ conn' = "closed"
       ELSE IF args.sheet_name = ""
       THEN /\ Ends(<<Printed("no_sheet_name", "", 0, 0),
                      Call("close", "")>>, 1)
            /\ conn' = "closed"
       ELSE /\ pc' = "load"
            /\ UNCHANGED <<log, status, conn>>
    /\ UNCHANGED <<run_no, rev, args, file, db0, db, pending, wb, sheet_no, tab, row_idx,
                   rows_inserted, rec, err>>

\* load_workbook(): import.py has the connection open by now and closes
\* it when the file cannot be opened, foo.py has not connected yet
LoadWorkbook ==
    /\ pc = "load"
    /\ IF file.readable
       THEN /\ wb' = file.sheets
            /\ log' = log \o <<Call("load_workbook", "ok")>>
            /\ pc' = IF rev = "import" THEN "cursor" ELSE "connect"
            /\ UNCHANGED <<status, conn, err>>
       ELSE /\ err' = Raised(SourceError, "load_workbook")
            /\ IF rev = "import"
               THEN /\ Ends(<<Call("load_workbook", "failed"),
                              Printed("open_failed", "", 0, 0),
                              Call("close", "")>>, 1)
                    /\ conn' = "closed"
               ELSE /\ Ends(<<Call("load_workbook", "failed"),
                              Printed("open_failed", "", 0, 0)>>, 1)
                    /\ UNCHANGED conn
            /\ UNCHANGED wb
    /\ UNCHANGED <<run_no, rev, args, file, db0, db, pending, sheet_no, tab, row_idx,
                   rows_inserted, rec>>

\* cursor = conn.cursor(), then the loop over wb.worksheets starts
OpenCursor ==
    /\ pc = "cursor"
    /\ log' = log \o <<Call("cursor", "")>>
    /\ sheet_no' = 1
    /\ pc' = "sheet"
    /\ UNCHANGED <<run_no, rev, args, file, db0, db, conn, pending, wb, tab, row_idx,
                   rows_inserted, rec, err, status>>

\* ParseName as it would be if the descriptor of the first worksheet were
\* kept for the worksheets after it
ParseNameOnce ==
    /\ pc = "sheet"
    /\ sheet_no <= Len(wb)
    /\ LET tab_full_str == wb[sheet_no].title
           parsed == parse_tab_name(tab_full_str)
       IN IF Failed(parsed)
          THEN /\ Aborts(Printed("name_error", tab_full_str, 0, 0), parsed,
                      "parse_tab_name")
               /\ UNCHANGED tab
          ELSE /\ tab' = IF tab = Null THEN parsed ELSE tab
               /\ pc' = "header"
               /\ UNCHANGED <<log, status, err, pending, conn>>
    /\ UNCHANGED <<run_no, rev, args, file, db0, db, wb, sheet_no, row_idx, rows_inserted,
                   rec>>

\* the next worksheet: parse_tab_name(sheet.title)
ParseName ==
    /\ pc = "sheet"
    /\ sheet_no <= Len(wb)
    /\ LET tab_full_str == wb[sheet_no].title
           parsed == parse_tab_name(tab_full_str)
       IN IF Failed(parsed)
          THEN /\ Aborts(Printed("name_error", tab_full_str, 0, 0), parsed,
                      "parse_tab_name")
               /\ UNCHANGED tab
          ELSE /\ tab' = parsed
               /\ pc' = "header"
               /\ UNCHANGED <<log, status, err, pending, conn>>
    /\ UNCHANGED <<run_no, rev, args, file, db0, db, wb, sheet_no, row_idx, rows_inserted,
                   rec>>

\* VerifyHeader as it would be if a mismatch were only reported
VerifyHeaderReporting ==
    /\ pc = "header"
    /\ LET verified == verify_header(rev, wb[sheet_no].header)
       IN log' = IF Failed(verified)
                 THEN log \o <<Printed("header_error", wb[sheet_no].title,
                                       0, 0)>>
                 ELSE log
    /\ rows_inserted' = 0
    /\ row_idx' = 2
    /\ pc' = "row"
    /\ UNCHANGED <<run_no, rev, args, file, db0, db, wb, sheet_no, tab, rec, status,
                   err, pending, conn>>

\* VerifyHeader as it would be if rows_inserted were set to zero once,
\* before the worksheet loop
VerifyHeaderKeepingCount ==
    /\ pc = "header"
    /\ LET verified == verify_header(rev, wb[sheet_no].header)
       IN IF Failed(verified)
          THEN /\ Aborts(Printed("header_error", wb[sheet_no].title, 0, 0),
                         verified, "verify_header")
               /\ UNCHANGED row_idx
          ELSE /\ row_idx' = 2
               /\ pc' = "row"
               /\ UNCHANGED <<log, status, err, pending, conn>>
    /\ UNCHANGED <<run_no, rev, args, file, db0, db, wb, sheet_no, tab, rec,
                   rows_inserted>>

\* verify_header(sheet), then rows_inserted = 0 and the loop over the rows
VerifyHeader ==
    /\ pc = "header"
    /\ LET verified == verify_header(rev, wb[sheet_no].header)
       IN IF Failed(verified)
          THEN /\ Aborts(Printed("header_error", wb[sheet_no].title, 0, 0),
                         verified, "verify_header")
               /\ UNCHANGED <<rows_inserted, row_idx>>
          ELSE /\ rows_inserted' = 0
               /\ row_idx' = 2
               /\ pc' = "row"
               /\ UNCHANGED <<log, status, err, pending, conn>>
    /\ UNCHANGED <<run_no, rev, args, file, db0, db, wb, sheet_no, tab, rec>>

\* Transform as it would be if the row were coerced before its Date cell
\* is tested
TransformBeforeSkip(row_values, fields) ==
    IF Failed(fields) /\ fields.err = "ValueError"
    THEN /\ Aborts(Printed("row_error", wb[sheet_no].title, row_idx, 0),
                   fields, "transform")
         /\ UNCHANGED <<row_idx, rec>>
    ELSE IF Failed(fields)
    THEN /\ Propagates(<<>>, fields, "transform")
         /\ UNCHANGED <<row_idx, rec>>
    ELSE IF Cell(row_values, 1).t = "none"
    THEN /\ row_idx' = row_idx + 1
         /\ UNCHANGED <<pc, rec, log, status, err, pending, conn>>
    ELSE /\ rec' = fields
         /\ pc' = "insert"
         /\ UNCHANGED <<row_idx, log, status, err, pending, conn>>

\* the rest of a pass of the row loop once the twelve cells are read and
\* transformed: skip the row when its Date cell is None, abort on a
\* ValueError, let any other exception propagate, else go on to the INSERT
Transform(row_values, fields) ==
    IF Cell(row_values, 1).t = "none"
    THEN /\ row_idx' = row_idx + 1
         /\ UNCHANGED <<pc, rec, log, status, err, pending, conn>>
    ELSE IF ~Failed(fields)
    THEN /\ rec' = fields
         /\ pc' = "insert"
         /\ UNCHANGED <<row_idx, log, status, err, pending, conn>>
    ELSE IF fields.err = "ValueError"
    THEN /\ Aborts(Printed("row_error", wb[sheet_no].title, row_idx, 0),
                   fields, "transform")
         /\ UNCHANGED <<row_idx, rec>>
    ELSE /\ Propagates(<<>>, fields, "transform")
         /\ UNCHANGED <<row_idx, rec>>

\* one pass of the row loop up to the INSERT
ReadRow ==
    /\ pc = "row"
    /\ row_idx <= max_row(wb[sheet_no])
    /\ Transform(wb[sheet_no].rows[row_idx - 1],
                 CoerceRow(rev, wb[sheet_no].rows[row_idx - 1]))
    /\ UNCHANGED <<run_no, rev, args, file, db0, db, wb, sheet_no, tab, rows_inserted>>

\* Insert as it would be if a row equal to a stored one were left out
InsertUnlessStored ==
    /\ pc = "insert"
    /\ \E inserted \in BOOLEAN :
          IF inserted
          THEN /\ pending' =
                    IF \E i \in DOMAIN db.stored :
                          db.stored[i] =
                              InsertParams(rev, rec, wb[sheet_no].title, tab,
                                           args.sheet_name)
                    THEN pending
                    ELSE Append(pending,
                                InsertParams(rev, rec, wb[sheet_no].title,
                                             tab, args.sheet_name))
               /\ log' = log \o <<Ev("insert", "ok", sheet_no,
                                     wb[sheet_no].title, row_idx, 0)>>
               /\ rows_inserted' = rows_inserted + 1
               /\ row_idx' = row_idx + 1
               /\ pc' = "row"
               /\ UNCHANGED <<status, err, conn>>
          ELSE /\ \E rolled_back \in BOOLEAN :
                    Ends(<<Ev("insert", "failed", sheet_no,
                              wb[sheet_no].title, row_idx, 0),
                           Printed("insert_error", wb[sheet_no].title,
                                   row_idx, 0),
                           Call("rollback", IF rolled_back THEN "ok"
                                            ELSE "failed")>>
                         \o (IF rolled_back THEN <<Call("close", "")>>
                             ELSE <<>>)
                         \o <<Call("close", "finally")>>
                         \o (IF rolled_back THEN <<>>
                             ELSE <<Printed("traceback", "", 0, 0)>>), 1)
               /\ err' = Raised(GatewayError, "insert")
               /\ pending' = <<>>
               /\ conn' = "closed"
               /\ UNCHANGED <<rows_inserted, row_idx>>
    /\ UNCHANGED <<run_no, rev, args, file, db0, db, wb, sheet_no, tab, rec>>

\* cursor.execute(insert_sql, ...) and rows_inserted += 1
Insert ==
    /\ pc = "insert"
    /\ \E inserted \in BOOLEAN :
          IF inserted
          THEN /\ pending' =
                    Append(pending,
                           InsertParams(rev, rec, wb[sheet_no].title, tab,
                                        args.sheet_name))
               /\ log' = log \o <<Ev("insert", "ok", sheet_no,
                                     wb[sheet_no].title, row_idx, 0)>>
               /\ rows_inserted' = rows_inserted + 1
               /\ row_idx' = row_idx + 1
               /\ pc' = "row"
               /\ UNCHANGED <<status, err, conn>>
          ELSE /\ \E rolled_back \in BOOLEAN :
                    Ends(<<Ev("insert", "failed", sheet_no,
                              wb[sheet_no].title, row_idx, 0),
                           Printed("insert_error", wb[sheet_no].title,
                                   row_idx, 0),
                           Call("rollback", IF rolled_back THEN "ok"
                                            ELSE "failed")>>
                         \o (IF rolled_back THEN <<Call("close", "")>>
                             ELSE <<>>)
                         \o <<Call("close", "finally")>>
                         \o (IF rolled_back THEN <<>>
                             ELSE <<Printed("traceback", "", 0, 0)>>), 1)
               /\ err' = Raised(GatewayError, "insert")
               /\ pending' = <<>>
               /\ conn' = "closed"
               /\ UNCHANGED <<rows_inserted, row_idx>>
    /\ UNCHANGED <<run_no, rev, args, file, db0, db, wb, sheet_no, tab, rec>>

\* ReportCount as it would be if the inserts were committed worksheet by
\* worksheet
ReportCountCommitting ==
    /\ pc = "row"
    /\ row_idx > max_row(wb[sheet_no])
    /\ log' = log \o <<Ev("print", "count", sheet_no, wb[sheet_no].title, 0,
                          rows_inserted)>>
    /\ db' = [db EXCEPT !.stored = db.stored \o pending]
    /\ pending' = <<>>
    /\ sheet_no' = sheet_no + 1
    /\ pc' = "sheet"
    /\ UNCHANGED <<run_no, rev, args, file, db0, conn, wb, tab, row_idx,
                   rows_inserted, rec, err, status>>

\* the row loop is over: print the count of the worksheet, next worksheet
ReportCount ==
    /\ pc = "row"
    /\ row_idx > max_row(wb[sheet_no])
    /\ log' = log \o <<Ev("print", "count", sheet_no, wb[sheet_no].title, 0,
                          rows_inserted)>>
    /\ sheet_no' = sheet_no + 1
    /\ pc' = "sheet"
    /\ UNCHANGED <<run_no, rev, args, file, db0, db, conn, pending, wb, tab, row_idx,
                   rows_inserted, rec, err, status>>

\* the worksheet loop is over: conn.commit(), then the finally clause
Commit ==
    /\ pc = "sheet"
    /\ sheet_no > Len(wb)
    /\ \E committed \in BOOLEAN :
          IF committed
          THEN /\ db' = [db EXCEPT !.stored = db.stored \o pending]
               /\ Ends(<<Call("commit", "run"), Call("close", "finally")>>, 0)
               /\ pending' = <<>>
               /\ conn' = "closed"
               /\ UNCHANGED err
          ELSE /\ Propagates(<<Call("commit", "failed")>>, GatewayError,
                             "commit")
               /\ UNCHANGED db
    /\ UNCHANGED <<run_no, rev, args, file, db0, wb, sheet_no, tab, row_idx,
                   rows_inserted, rec>>

\* the program is started again on the same file and database after a run
\* that loaded the file and exited with status 0
RunAgain ==
    /\ pc = "done"
    /\ status = 0
    /\ args = LoadArgs
    /\ run_no < MaxRuns
    /\ run_no' = run_no + 1
    /\ db0' = db
    /\ conn' = "none"
    /\ pending' = <<>>
    /\ pc' = "start"
    /\ wb' = <<>>
    /\ sheet_no' = 0
    /\ tab' = Null
    /\ row_idx' = 0
    /\ rows_inserted' = 0
    /\ rec' = Null
    /\ log' = <<>>
    /\ err' = Null
    /\ status' = -1
    /\ UNCHANGED <<rev, args, file, db>>

Next ==
    \/ ParseArgs
    \/ Connect
    \/ CheckModes
    \/ DropTable
    \/ EnsureTable
    \/ ValidateArgs
    \/ LoadWorkbook
    \/ OpenCursor
    \/ ParseName
    \/ VerifyHeader
    \/ ReadRow
    \/ Insert
    \/ ReportCount
    \/ Commit
    \/ RunAgain

Spec == Init /\ [][Next]_vars

\* ------------------------------------------------------------------------
\* Vocabulary of the properties
\* ------------------------------------------------------------------------

\* the process has ended
Done == pc = "done"

\* the run ended on an exception raised by this call
FailedAt(at) == "at" \in DOMAIN err /\ err.at = at

\* the positions of the log that hold this kind of entry
Entries(op) == {i \in DOMAIN log : log[i].op = op}

\* the INSERTs that succeeded for a worksheet
InsertedFrom(sheet) ==
    {i \in Entries("insert") : log[i].sheet = sheet /\ log[i].arg = "ok"}

\* a data row by worksheet position and row position
RowAt(sheets, ref) == sheets[ref.sheet].rows[ref.row - 1]

\* the rows of worksheet i, from row 2 on, whose timestamp cell is present
SheetRefs(sheets, i) ==
    LET all == [k \in 1..Len(sheets[i].rows) |-> [sheet |-> i, row |-> k + 1]]
        Present(ref) == Cell(RowAt(sheets, ref), 1) # None
    IN SelectSeq(all, Present)

\* the rows with a present timestamp of worksheets i, i + 1, ... in order
RECURSIVE TimestampRows(_, _)
TimestampRows(sheets, i) ==
    IF i > Len(sheets) THEN <<>>
    ELSE SheetRefs(sheets, i) \o TimestampRows(sheets, i + 1)

\* the record a row of the input file is stored as
RecordOf(ref) ==
    InsertParams(rev, CoerceRow(rev, RowAt(file.sheets, ref)),
                 file.sheets[ref.sheet].title,
                 parse_tab_name(file.sheets[ref.sheet].title),
                 args.sheet_name)

\* every row with a present timestamp of the input file, as stored
ExpectedRecords ==
    [k \in 1..Len(TimestampRows(file.sheets, 1)) |->
        RecordOf(TimestampRows(file.sheets, 1)[k])]

\* ------------------------------------------------------------------------
\* Properties
\* ------------------------------------------------------------------------

\* C1: the rows an import run persists are all or nothing.  At every
\* moment the table holds what it held before the run, followed either by
\* nothing or by one record for every row with a present timestamp of every
\* worksheet; once a run has ended on a failure it holds exactly what it
\* held before, whatever had been inserted by then.
C1_AllOrNothing ==
    ~args.drop_table_only =>
        /\ \/ db.stored = db0.stored
           \/ db.stored = db0.stored \o ExpectedRecords
        /\ Done /\ err # Null => db.stored = db0.stored

\* C1 witness: the first worksheet had its three rows inserted, the second
\* failed coercion on its second data row, and the table holds the earlier
\* row only
C1_Witness ==
    /\ Done
    /\ Len(wb) = 2
    /\ Cardinality(InsertedFrom(1)) = 3
    /\ Cardinality(InsertedFrom(2)) = 1
    /\ FailedAt("transform")
    /\ sheet_no = 2 /\ row_idx = 3
    /\ db0.stored # <<>>
    /\ db.stored = db0.stored

\* the commits and rollbacks of the run, the commit of the table statement
\* aside
TerminalActions ==
    {i \in Entries("commit") \cup Entries("rollback") : log[i].arg # "ddl"}

\* C2: a run that entered the worksheet loop has ended with exactly one
\* commit or rollback: the commit after the last worksheet, the rollback
\* on a failure, and no INSERT after it
C2_OneTerminalAction ==
    Done /\ Entries("cursor") # {} =>
        /\ Cardinality(TerminalActions) = 1
        /\ \A i \in TerminalActions :
              /\ \A j \in Entries("insert") : j < i
              /\ log[i].op = "commit" => sheet_no > Len(wb)
              /\ log[i].op = "rollback" => err # Null

\* C3: when the workbook cannot be opened the run ends with a nonzero
\* status and has not touched the database: no connect, no table statement,
\* no commit
C3_SourceErrorBeforeDatabase ==
    Done /\ FailedAt("load_workbook") =>
        /\ status # 0
        /\ \A i \in DOMAIN log :
              log[i].op \notin {"connect", "create", "drop", "commit"}

\* C4: once the connection is established, it is closed by the time the
\* process ends, on every way out
C4_ConnectionReleased ==
    Done /\ (\E i \in Entries("connect") : log[i].arg = "ok") =>
        /\ conn = "closed"
        /\ Entries("close") # {}

\* every INSERT issued for a worksheet, failed ones included
InsertsOf(sheet) == {i \in Entries("insert") : log[i].sheet = sheet}

\* C5: a row with a present timestamp that fails coercion makes the run
\* print a message naming the row and the worksheet, roll back, close the
\* connection and end with a nonzero status, in this order, without an
\* INSERT for that row or a later one
C5_CoercionFailureAborts ==
    Done /\ FailedAt("transform") =>
        /\ \E i, j, k \in DOMAIN log :
              /\ i < j /\ j < k
              /\ log[i] = Printed("row_error", wb[sheet_no].title, row_idx, 0)
              /\ log[j].op = "rollback"
              /\ log[k].op = "close"
        /\ log[Len(log)].op = "exit"
        /\ status # 0
        /\ \A i \in Entries("insert") :
              \/ log[i].sheet < sheet_no
              \/ log[i].sheet = sheet_no /\ log[i].row < row_idx

\* row 1 of a worksheet with every absent cell replaced by the empty string
NormalizedHeader(sheet) ==
    [i \in 1..Len(EXPECTED_HEADERS(rev)) |->
        IF Cell(sheet.header, i) = None THEN StrCell("")
        ELSE Cell(sheet.header, i)]

\* the normalized row 1 equals the expected labels position by position
PositionallyEqual(sheet) ==
    \A i \in 1..Len(EXPECTED_HEADERS(rev)) :
        NormalizedHeader(sheet)[i] = StrCell(EXPECTED_HEADERS(rev)[i])

\* the run has ended at a worksheet whose name parses and whose header
\* differs from the expected one
EndedAtBadHeader ==
    /\ Done
    /\ sheet_no \in 1..Len(wb)
    /\ ~Failed(parse_tab_name(wb[sheet_no].title))
    /\ ~PositionallyEqual(wb[sheet_no])

\* C6: every INSERT comes from a worksheet whose name parsed and whose
\* header matched, and both were done before the first INSERT of that
\* worksheet; a run that reaches a worksheet with a differing header ends
\* with the header error without any INSERT from it, and when it is the
\* first worksheet no INSERT was issued and the stored rows are as before
C6_ParseAndVerifyBeforeInsert ==
    /\ \A sheet \in 1..Len(wb) :
          InsertsOf(sheet) # {} =>
              /\ ~Failed(parse_tab_name(wb[sheet].title))
              /\ PositionallyEqual(wb[sheet])
    /\ pc \in {"sheet", "header"} => InsertsOf(sheet_no) = {}
    /\ pc = "header" => tab = parse_tab_name(wb[sheet_no].title)
    /\ EndedAtBadHeader =>
          /\ FailedAt("verify_header")
          /\ err.err = "ValueError"
          /\ InsertsOf(sheet_no) = {}
          /\ sheet_no = 1 => Entries("insert") = {} /\ db.stored = db0.stored

\* C6 witness: the first worksheet has "Notes" for "Note" in its seventh
\* cell and the run has ended on it, the earlier row still stored
C6_Witness ==
    /\ EndedAtBadHeader
    /\ sheet_no = 1
    /\ wb[1].header = [Labels(rev) EXCEPT ![7] = StrCell("Notes")]
    /\ FailedAt("verify_header")
    /\ Entries("insert") = {}
    /\ db0.stored # <<>>
    /\ db.stored = db0.stored

IsInsert(e) == e.op = "insert"

\* the rows the INSERTs of the run were issued for, in the order issued
InsertRefs ==
    [k \in 1..Len(SelectSeq(log, IsInsert)) |->
        [sheet |-> SelectSeq(log, IsInsert)[k].sheet,
         row |-> SelectSeq(log, IsInsert)[k].row]]

IsPrefix(p, q) == Len(p) <= Len(q) /\ SubSeq(q, 1, Len(p)) = p

\* C7: the INSERTs issued so far are, in order, the first rows with a
\* present timestamp of the workbook, worksheet after worksheet and row
\* after row, each once; a run that ends with status 0 has issued one for
\* each of them, and all succeeded
C7_InsertsInWorkbookOrder ==
    /\ IsPrefix(InsertRefs, TimestampRows(wb, 1))
    /\ Done /\ status = 0 =>
          /\ InsertRefs = TimestampRows(wb, 1)
          /\ \A i \in Entries("insert") : log[i].arg = "ok"

\* C7 witness: a run over two worksheets with a row skipped in each has
\* committed
C7_Witness ==
    /\ Done /\ status = 0
    /\ Len(wb) = 2
    /\ wb[1].rows = <<RowSkip, RowA>>
    /\ wb[2].rows = <<RowA, RowSkip>>
    /\ InsertRefs = <<[sheet |-> 1, row |-> 3], [sheet |-> 2, row |-> 2]>>

\* C8: the pass of the row loop over a row whose timestamp cell is absent
\* issues no INSERT, prints nothing, raises nothing, leaves the count of
\* the worksheet alone and moves to the next row
C8_AbsentTimestampSkipped ==
    [][(/\ pc = "row"
        /\ row_idx <= 1 + Len(wb[sheet_no].rows)
        /\ Cell(wb[sheet_no].rows[row_idx - 1], 1) = None)
       => /\ pc' = "row"
          /\ row_idx' = row_idx + 1
          /\ sheet_no' = sheet_no
          /\ rows_inserted' = rows_inserted
          /\ log' = log
          /\ pending' = pending
          /\ err' = err
          /\ status' = status]_vars

\* C8 witness: the first data row had no timestamp and cells that fail
\* coercion in a row that has one; the loop is at the next row
C8_Witness ==
    /\ pc = "row"
    /\ row_idx = 3
    /\ Cell(wb[sheet_no].rows[1], 1) = None
    /\ Failed(CoerceRow(rev, [wb[sheet_no].rows[1] EXCEPT ![1] = RowA[1]]))
    /\ InsertsOf(sheet_no) = {}
    /\ rows_inserted = 0
    /\ err = Null

\* the positions of the log that hold the count of a worksheet
Counts == {i \in Entries("print") : log[i].arg = "count"}

\* C9: the count printed for a worksheet is the number of INSERTs that
\* succeeded for that worksheet, which is the number of its rows with a
\* present timestamp; it is printed after the INSERTs of that worksheet and
\* before those of later worksheets and the commit; the counts come in
\* worksheet order, one for each worksheet the run got through, none for
\* the worksheet a run failed on
C9_CountPerWorksheet ==
    /\ \A i \in Counts :
          /\ log[i].n = Cardinality(InsertedFrom(log[i].sheet))
          /\ log[i].n = Len(SheetRefs(wb, log[i].sheet))
          /\ \A j \in Entries("insert") :
                IF log[j].sheet <= log[i].sheet THEN j < i ELSE i < j
          /\ \A j \in TerminalActions : i < j
          /\ \A j \in Counts : j < i <=> log[j].sheet < log[i].sheet
    /\ \A sheet \in 1..Len(wb) :
          (sheet < sheet_no) <=> (\E i \in Counts : log[i].sheet = sheet)

\* C9 witness: a committed run printed 3 for the first worksheet and 1 for
\* the second
C9_Witness ==
    /\ Done /\ status = 0
    /\ Len(wb) = 2
    /\ \E i, j \in Counts :
          /\ i < j
          /\ log[i].sheet = 1 /\ log[i].n = 3
          /\ log[j].sheet = 2 /\ log[j].n = 1

\* C10: header verification has passed only for a first row positionally
\* equal to the twelve expected labels, and a run that reaches a first row
\* that is not ends on the header error, which lists the expected labels
\* and the cells found
C10_HeaderVerifiedIffEqual ==
    /\ Len(EXPECTED_HEADERS(rev)) = 12
    /\ pc \in {"row", "insert"} => PositionallyEqual(wb[sheet_no])
    /\ EndedAtBadHeader => FailedAt("verify_header")
    /\ Done /\ FailedAt("verify_header") =>
          /\ ~PositionallyEqual(wb[sheet_no])
          /\ err.err = "ValueError"
          /\ err.Expected = EXPECTED_HEADERS(rev)
          /\ \A i \in 1..Len(EXPECTED_HEADERS(rev)) :
                /\ Cell(wb[sheet_no].header, i) = None
                      => err.Found[i] = StrCell("")
                /\ Truthy(Cell(wb[sheet_no].header, i))
                      => err.Found[i] = Cell(wb[sheet_no].header, i)

\* C10 witness: the run has ended on a first row with two labels exchanged
C10_Witness ==
    /\ Done
    /\ FailedAt("verify_header")
    /\ wb[sheet_no].header =
          [Labels(rev) EXCEPT ![4] = StrCell("Request"), ![5] = StrCell("Mode")]

\* the first row of a worksheet has a non-empty cell beyond the expected
\* columns
HasExtraColumn(sheet) ==
    \E col \in (Len(EXPECTED_HEADERS(rev)) + 1)..Len(sheet.header) :
        Truthy(sheet.header[col])

\* C11: a worksheet whose first row has a non-empty cell beyond the twelfth
\* column is rejected: no INSERT is ever issued for it, and a run that
\* reaches it ends on the header error
C11_ExtraColumnRejected ==
    /\ \A sheet \in 1..Len(wb) :
          HasExtraColumn(wb[sheet]) => InsertsOf(sheet) = {}
    /\ /\ Done
       /\ \E sheet \in 1..Len(wb) :
             /\ HasExtraColumn(wb[sheet])
             /\ sheet <= sheet_no
             /\ ~Failed(parse_tab_name(wb[sheet].title))
       => FailedAt("verify_header")

\* a name is exactly YYYY-MM-DD HHMM-HHMM Extra: digits and dashes in
\* place, one space after the date and one after the block, a valid
\* calendar date, hours 00-23 and minutes 00-59
WellFormedName(s) ==
    /\ Len(s) >= 22
    /\ MatchesDate(s)
    /\ Ch(s, 11) = " "
    /\ MatchesBlock(s, 12)
    /\ Ch(s, 21) = " "
    /\ ~IsSpace(Ch(s, 22))
    /\ DigitsToInt(SubSeq(s, 1, 4)) >= 1
    /\ DigitsToInt(SubSeq(s, 6, 7)) \in 1..12
    /\ DigitsToInt(SubSeq(s, 9, 10)) \in
          1..DaysInMonth(DigitsToInt(SubSeq(s, 1, 4)),
                         DigitsToInt(SubSeq(s, 6, 7)))
    /\ DigitsToInt(SubSeq(s, 12, 13)) \in 0..23
    /\ DigitsToInt(SubSeq(s, 14, 15)) \in 0..59
    /\ DigitsToInt(SubSeq(s, 17, 18)) \in 0..23
    /\ DigitsToInt(SubSeq(s, 19, 20)) \in 0..59

\* C12: a worksheet name that is not exactly of the form YYYY-MM-DD
\* HHMM-HHMM Extra fails to parse, never yields a descriptor and never has
\* an INSERT issued for its worksheet
C12_MalformedNameFails ==
    /\ \A sheet \in 1..Len(wb) :
          ~WellFormedName(wb[sheet].title) =>
              /\ Failed(parse_tab_name(wb[sheet].title))
              /\ InsertsOf(sheet) = {}
    /\ pc \in {"header", "row", "insert"} =>
          WellFormedName(wb[sheet_no].title)

\* the wall-clock time a token H:MM, HH:MM or HHMM denotes, or Null
TokenTime(t) ==
    LET time(hh, mm) ==
            IF AllDigits(hh) /\ AllDigits(mm) /\ DigitsToInt(hh) <= 23
               /\ DigitsToInt(mm) <= 59
            THEN [h |-> DigitsToInt(hh), mi |-> DigitsToInt(mm)]
            ELSE Null
    IN IF Len(t) = 4 /\ Ch(t, 2) = ":" THEN time(SubSeq(t, 1, 1), From(t, 3))
       ELSE IF Len(t) = 5 /\ Ch(t, 3) = ":"
       THEN time(SubSeq(t, 1, 2), From(t, 4))
       ELSE IF Len(t) = 4 THEN time(SubSeq(t, 1, 2), From(t, 3))
       ELSE Null

\* the two times a text of the form token-token denotes, or Null
BlockTimes(s) ==
    IF ~Contains(s, "-") THEN Null
    ELSE LET first == TokenTime(SubSeq(s, 1, Find(s, "-") - 1))
             second == TokenTime(From(s, Find(s, "-") + 1))
         IN IF first = Null \/ second = Null THEN Null
            ELSE [start |-> first, end |-> second]

\* the TimeBlock cell of a row is present and not of the form token-token
MalformedBlock(row) ==
    Cell(row, 11) # None /\ BlockTimes(Cell(row, 11).s) = Null

\* C13: in every record submitted, the two times of the time block are
\* both null when the TimeBlock cell is absent and are the two times the
\* cell denotes when it is present, in which case it is of the form
\* token-token; a record never has exactly one of them; "0800" and "08:00"
\* denote the same time; a run that reaches a row with a present timestamp
\* and a present cell not of that form ends on the coercion error
C13_TimeBlockThreeWays ==
    /\ \A k \in 1..Len(pending) :
          /\ Cell(RowAt(wb, InsertRefs[k]), 11) = None =>
                /\ pending[k].time_block_start = Null
                /\ pending[k].time_block_end = Null
          /\ Cell(RowAt(wb, InsertRefs[k]), 11) # None =>
                /\ ~MalformedBlock(RowAt(wb, InsertRefs[k]))
                /\ pending[k].time_block_start =
                      BlockTimes(Cell(RowAt(wb, InsertRefs[k]), 11).s).start
                /\ pending[k].time_block_end =
                      BlockTimes(Cell(RowAt(wb, InsertRefs[k]), 11).s).end
          /\ pending[k].time_block_start = Null
                <=> pending[k].time_block_end = Null
    /\ parse_hhmm("0800") = parse_hhmm("08:00")
    /\ /\ Done
       /\ FailedAt("transform") \/ FailedAt("insert")
       /\ Cell(wb[sheet_no].rows[row_idx - 1], 1) # None
       /\ MalformedBlock(wb[sheet_no].rows[row_idx - 1])
       => FailedAt("transform") /\ err.err = "ValueError"

\* the text fields of a record and the nullable fields, each with the
\* column of its source cell
TextFields ==
    {<<"mode", 4>>, <<"request", 5>>, <<"state", 6>>, <<"note", 7>>,
     <<"heating", 8>>, <<"timeblockstate", 12>>}

NullableFields ==
    {<<"supply", 2>>, <<"return_temp_c", 3>>, <<"heating_group", 9>>,
     <<"date_only", 10>>}

\* C14: in every record submitted, each text field is the empty string
\* when its source cell is absent and the string form of the cell when it
\* is present, whatever the value, and never null; supply, return
\* temperature, heating group and date-only are null exactly when their
\* source cell is absent
C14_TextNeverNull ==
    \A k \in 1..Len(pending) :
        LET row == RowAt(wb, InsertRefs[k]) IN
        /\ \A f \in TextFields :
              /\ pending[k][f[1]] # Null
              /\ Cell(row, f[2]) = None => pending[k][f[1]] = Text("")
              /\ Cell(row, f[2]) # None =>
                    pending[k][f[1]] = Text(Cell(row, f[2]).s)
        /\ \A f \in NullableFields :
              pending[k][f[1]] = Null <=> Cell(row, f[2]) = None

\* the worksheet the k-th record of the open transaction was read from
SheetOf(k) == InsertRefs[k].sheet

\* what the name of each worksheet parses to
Descriptors == [sheet \in 1..Len(wb) |-> parse_tab_name(wb[sheet].title)]

\* a record carries the name of this worksheet (where the table has the
\* column: import.py), the date and the times of its descriptor, the label
\* of the command line, and the date of no other descriptor
Carries(record, sheet, descriptors) ==
    /\ rev = "import" => record.tab_full_str = Text(wb[sheet].title)
    /\ record.tab_date = descriptors[sheet].tab_date
    /\ record.tab_start_time = descriptors[sheet].tab_start_time
    /\ record.tab_end_time = descriptors[sheet].tab_end_time
    /\ record.sheet_name = Text(args.sheet_name)
    /\ \A other \in 1..Len(wb) :
          other # sheet /\ ~Failed(descriptors[other])
          => record.tab_date # descriptors[other].tab_date

\* C15: the record a step submits from a row of a worksheet carries the
\* name of that worksheet verbatim (where the table has the column:
\* import.py), the date and the two times parsed from that name, and the
\* label given on the command line, and the date of no other worksheet of
\* the workbook; the records submitted before it stay as they were
\* submitted, whatever worksheets are processed after theirs
C15_DescriptorOfOwnWorksheet ==
    [][/\ pending' # <<>> =>
             /\ Len(pending') >= Len(pending)
             /\ SubSeq(pending', 1, Len(pending)) = pending
       /\ Len(pending') = Len(pending) + 1 =>
             Carries(pending'[Len(pending')], sheet_no, Descriptors)]_vars

\* C15 witness: the open transaction of import.py holds records of the
\* first and of the second worksheet, each with the date of its own name
C15_Witness ==
    /\ rev = "import"
    /\ Len(wb) = 2
    /\ Len(pending) = 4
    /\ SheetOf(3) = 1 /\ SheetOf(4) = 2
    /\ pending[3].tab_date = [y |-> 2025, m |-> 3, d |-> 1]
    /\ pending[4].tab_date = [y |-> 2025, m |-> 3, d |-> 2]
    /\ pending[3].tab_full_str = Text(GoodTitle(1))
    /\ pending[4].tab_full_str = Text(GoodTitle(2))
    /\ pending[4].sheet_name = Text("label")

\* n copies of a sequence, one after the other
RECURSIVE Repeated(_, _)
Repeated(q, n) == IF n = 0 THEN <<>> ELSE q \o Repeated(q, n - 1)

\* C16: a run never changes or removes a stored row; a run that loads the
\* file and ends with status 0 has added one stored row for every row with
\* a present timestamp, so that after the n-th such run on the same file
\* the table holds what it held at first and then every such row n times;
\* a run that ends with another status leaves the stored rows as they were
C16_AppendOnly ==
    ~args.drop_table_only =>
        /\ IsPrefix(db0.stored, db.stored)
        /\ Done /\ status = 0 /\ args = LoadArgs =>
              /\ db.stored = db0.stored \o ExpectedRecords
              /\ Len(db.stored) =
                    Len(db0.stored) + Len(TimestampRows(file.sheets, 1))
              /\ \E first \in Databases(rev) :
                    db.stored =
                        first.stored \o Repeated(ExpectedRecords, run_no)
        /\ Done /\ status # 0 => db.stored = db0.stored

\* C16 witness: the second run on a workbook with four rows that have a
\* timestamp has committed, each of them is stored twice, after the row an
\* earlier import had stored
C16_Witness ==
    /\ Done /\ status = 0
    /\ run_no = 2
    /\ Len(TimestampRows(file.sheets, 1)) = 4
    /\ Len(db0.stored) = 5
    /\ Len(db.stored) = 9
    /\ db.stored[1] = PriorRow(rev)
    /\ \A k \in 1..4 : db.stored[1 + k] = db.stored[5 + k]

====
